---------------------------- MODULE Spec2Model ----------------------------
(***************************************************************************)
(* A model of the activity normalisation code of ztraining.py:            *)
(*   ZwiftTraining.parse_fit_records, ZwiftTraining._process_activity     *)
(*   and ZwiftTraining.calc_max_powers.                                    *)
(*                                                                         *)
(* Numbers.  The code computes in float64; the model computes exactly in   *)
(* fixed point, one unit per column:                                       *)
(*   dtime, duration      seconds                                          *)
(*   distance             an integer numerator n over the column's         *)
(*                        denominator dden: the value is n / dden km       *)
(*   movement             MU, 1/90 mm (so that both a millimetre, 90 MU,   *)
(*                        and 100 km/h per second, 250/9 m, are whole)     *)
(*   elevation            mm                                               *)
(*   hr, power, cadence,  halves of the unit (a 2-sample mean of whole     *)
(*   temp                 values is a whole number of halves)              *)
(*   speed                SU, 1/180000 km/h                                *)
(*   latt, long           dyadic numbers m * 2^e (records [m, e])          *)
(* NaN, +inf and -inf are the sentinels NaN, PosInf, NegInf; Absent is a   *)
(* column or key that does not exist yet.                                  *)
(***************************************************************************)
EXTENDS Integers, Sequences, FiniteSets, TLC

VARIABLES
    call,      \* the entry point of this run
    pc,        \* the position in the code
    records,   \* parse_fit_records: the decoded record list
    arg_df,    \* _process_activity: the sample table as it was passed in
    df,        \* the sample table being transformed (the returned table at "done")
    dden,      \* the denominator of df's distance column
    meta,      \* the metadata mapping (the returned summary at "done")
    exc,       \* the exception that ended the run, or "none"
    pw,        \* calc_max_powers: the power column of the table passed in
    result,    \* calc_max_powers: the returned period -> watt (tenths) mapping
    xml,       \* xml_path_val: the element, the tag path, the default and the outcome
    index,     \* the profile directory: whether activities.csv exists, its rows, and
               \* the activity files (named by start time) under activities/
    job        \* save_activity, import_files, _zwift_update_activities: arguments and locals

vars == <<call, pc, records, arg_df, df, dden, meta, exc, pw, result, xml, index, job>>

-----------------------------------------------------------------------------
(* Missing values and infinities *)

NaN == -2000000000
PosInf == 2000000001
NegInf == -2000000001
Absent == -2000000003

IsNull(x) == x = NaN
IsNum(x) == x \notin {NaN, PosInf, NegInf, Absent}

(* Units *)
MUperMM == 90
MUperM == 90000
MUperKm == 90000000
ElevPerM == 1000
SUperKph == 180000
Half(x) == 2 * x

-----------------------------------------------------------------------------
(* Arithmetic helpers *)

Abs(x) == IF x < 0 THEN -x ELSE x

\* a / b for b # 0 when b divides a (the quotient is exact in the model's units)
Quot(a, b) == IF b > 0 THEN a \div b ELSE (-a) \div (-b)

\* a / b rounded to the nearest integer, ties to even (numpy/pandas round), b > 0
RoundHalfEven(a, b) ==
    LET q == a \div b
        r == a - q * b
    IN  IF 2 * r < b THEN q
        ELSE IF 2 * r > b THEN q + 1
        ELSE IF q % 2 = 0 THEN q ELSE q + 1

\* the least integer >= a / b, b > 0 (np.ceil)
CeilDiv(a, b) == -((-a) \div b)

RECURSIVE Pow2(_)
Pow2(k) == IF k = 0 THEN 1 ELSE 2 * Pow2(k - 1)

RECURSIVE SumSeq(_)
SumSeq(s) == IF s = <<>> THEN 0 ELSE Head(s) + SumSeq(Tail(s))

RECURSIVE SelectIdx(_, _, _)
\* the subsequence of s at the indices i (ascending) for which keep[i]
SelectIdx(s, keep, i) ==
    IF i > Len(s) THEN <<>>
    ELSE (IF keep[i] THEN <<s[i]>> ELSE <<>>) \o SelectIdx(s, keep, i + 1)

MaxOf(S) == CHOOSE x \in S : \A y \in S : y <= x

-----------------------------------------------------------------------------
(* Coordinates: dyadic numbers m * 2^e, m odd or 0 *)

NaNCoord == [m |-> NaN, e |-> 0]
IsNullC(c) == c.m = NaN

RECURSIVE Norm(_, _)
Norm(m, e) == IF m = 0 THEN [m |-> 0, e |-> 0]
              ELSE IF m % 2 = 0 THEN Norm(m \div 2, e + 1)
              ELSE [m |-> m, e |-> e]

Dy(n) == Norm(n, 0)

\* floor(c) for a coordinate that is not a whole number (c.e < 0, c.m odd)
DyFloor(c) == IF -c.e > 30 THEN (IF c.m < 0 THEN -1 ELSE 0) ELSE c.m \div Pow2(-c.e)

\* c > k and c < k for an integer k with |k| < 2^8
DyGt(c, k) ==
    IF c.e >= 0
    THEN IF c.e > 7 THEN c.m > 0 ELSE c.m * Pow2(c.e) > k
    ELSE DyFloor(c) >= k
DyLt(c, k) ==
    IF c.e >= 0
    THEN IF c.e > 7 THEN c.m < 0 ELSE c.m * Pow2(c.e) < k
    ELSE DyFloor(c) < k

\* c * 180 / 2^31  =  c * 45 * 2^(-29)
SEMI_NUM == 180
SEMI_EXP == 31
SemiToDeg(c) == IF IsNullC(c) THEN c ELSE Norm(c.m * SEMI_NUM, c.e - SEMI_EXP)

-----------------------------------------------------------------------------
(* _process_activity: constants and column operators *)

MAX_ELE == 9000
MAX_HR == 250
MAX_POWER == 2500
MAX_CADENCE == 210
MAX_SPEED == 100
MAX_TEMP == 55
MinKph == 3

\* MU moved in one tick at 1 km/h: 1000 m / 3600
MUperKphTick == (1000 * MUperM) \div 3600

\* a sample as a parser emits it (duration, mov_duration, movement do not exist yet)
Row(t, la, lo, el, di, h, ca, sp, po, te) ==
    [dtime |-> t, duration |-> Absent, mov_duration |-> Absent, movement |-> Absent,
     latt |-> la, long |-> lo, elevation |-> el, distance |-> di, hr |-> h,
     cadence |-> ca, speed |-> sp, power |-> po, temp |-> te]

Col(d, f) == [i \in 1..Len(d) |-> d[i][f]]
SetCol(d, f, c) == [i \in 1..Len(d) |-> [d[i] EXCEPT ![f] = c[i]]]

\* Series.clip(upper=hi): NaN stays NaN
ClipUpperNone(x, hi) == x
ClipUpper(x, hi) == IF IsNull(x) THEN NaN ELSE IF x > hi THEN hi ELSE x

ClampRow(r) ==
    [r EXCEPT !.elevation = ClipUpper(@, MAX_ELE * ElevPerM),
              !.hr = ClipUpper(@, Half(MAX_HR)),
              !.power = ClipUpper(@, Half(MAX_POWER)),
              !.cadence = ClipUpper(@, Half(MAX_CADENCE)),
              !.speed = ClipUpper(@, MAX_SPEED * SUperKph),
              !.temp = ClipUpper(@, Half(MAX_TEMP))]

\* the distance source cannot be determined (lines 687-689)
NoDistanceSourceNever(first) == FALSE
NoDistanceSource(first) == IsNull(first.distance) /\ IsNullC(first.latt)

\* Every movement above max_movement is clipped to it on line 704, so a product
\* of MovSat or more is kept as MovSat: the clipped result is the same.
MovSat == MUperKm
SatMul(a, f) == IF a > MovSat \div f THEN MovSat ELSE a * f

\* (df['distance'] * 1000).diff(), line 698
DistanceFromStart(d, den) ==
    [i \in 1..Len(d) |->
        IF i = 1 THEN NaN
        ELSE IF IsNull(d[i].distance) \/ IsNull(d[1].distance) THEN NaN
        ELSE SatMul(d[i].distance - d[1].distance, MUperKm \div den)]
DistanceDiff(d, den) ==
    [i \in 1..Len(d) |->
        IF i = 1 THEN NaN
        ELSE IF IsNull(d[i].distance) \/ IsNull(d[i-1].distance) THEN NaN
        ELSE SatMul(d[i].distance - d[i-1].distance, MUperKm \div den)]

\* the rows on which measure_distance is given two non-null latitudes
GeoRows(d) == {i \in 2..Len(d) : ~IsNullC(d[i-1].latt) /\ ~IsNullC(d[i].latt)}

\* df.apply(func, axis=1).fillna(0), line 694; g[i] is geopy's answer on row i
GpsMovement(d, g) == [i \in 1..Len(d) |-> IF i \in GeoRows(d) THEN g[i] ELSE 0]

RECURSIVE CumSumTo(_, _)
CumSumTo(c, i) == IF i = 0 THEN 0 ELSE c[i] + CumSumTo(c, i - 1)
CumSum(c) == [i \in 1..Len(c) |-> CumSumTo(c, i)]

\* df.loc[0, 'movement'] = df.loc[0, 'distance'] * 1000, line 700
FirstMovement(first, den) ==
    IF IsNull(first.distance) THEN NaN ELSE SatMul(first.distance, MUperKm \div den)

\* Series.round(3) of metres: to the millimetre, line 701
Round3None(m) == m
Round3(m) == IF IsNull(m) THEN NaN ELSE RoundHalfEven(m, MUperMM) * MUperMM

MaxMovement == MAX_SPEED * MUperKphTick

\* lines 700-704 on a movement column
FinishMovement(d, den, mov) ==
    [i \in 1..Len(d) |->
        ClipUpper(Round3(IF i = 1 THEN FirstMovement(d[1], den) ELSE mov[i]), MaxMovement)]

\* (df['dtime'] - start_time).dt.total_seconds(), lines 707-708
DurationReversed(d) == [i \in 1..Len(d) |-> d[1].dtime - d[i].dtime]
Duration(d) == [i \in 1..Len(d) |-> d[i].dtime - d[1].dtime]

\* df['duration'].diff().fillna(1), line 711
TickElapsed(d) == [i \in 1..Len(d) |-> IF i = 1 THEN 1 ELSE d[i].duration - d[i-1].duration]

\* movement * 3600 / 1000 / tick, in SU; lines 712-714
RawSpeed(mov, tick) ==
    IF IsNull(mov) THEN NaN
    ELSE IF tick = 0 THEN (IF mov > 0 THEN PosInf ELSE IF mov < 0 THEN NegInf ELSE NaN)
    ELSE Quot((mov \div 5) * 36, tick)
Speed(mov, tick) ==
    LET s == RawSpeed(mov, tick)
        t == IF s = PosInf THEN NaN ELSE s
    IN  IF IsNum(t) /\ t > 100 * SUperKph THEN 100 * SUperKph ELSE t

\* Series.rolling(w, min_periods=1).mean() at row i: the mean of the finite
\* values among the last w (rolling takes an infinite value for a missing one)
RollMean1(c, w, i) ==
    LET win == {j \in 1..i : j > i - w /\ IsNum(c[j])}
    IN  IF win = {} THEN NaN
        ELSE Quot(SumSeq(SelectIdx(c, [j \in 1..Len(c) |-> j \in win], 1)), Cardinality(win))
Rolling1(c, w) == [i \in 1..Len(c) |-> RollMean1(c, w, i)]

\* df[ df['movement'] >= min_movement ], lines 724-725
MinMovement == MinKph * MUperKphTick
KeepsNaN(mov) == IsNull(mov) \/ mov >= MinMovement
Moving(mov) == ~IsNull(mov) /\ mov >= MinMovement
RemoveNonMovement(d) == SelectIdx(d, [i \in 1..Len(d) |-> Moving(d[i].movement)], 1)

\* range(0, len(df)), line 728
MovDurationFromOne(n) == [i \in 1..n |-> i]
MovDuration(n) == [i \in 1..n |-> i - 1]

\* the sports table, lines 730-741
sports ==
    [biking |-> "cycling", cycling |-> "cycling", cycling_transportation |-> "cycling",
     cycling_sport |-> "cycling", ride |-> "cycling", virtualride |-> "cycling",
     virtualrun |-> "running", run |-> "running", running |-> "running",
     other |-> "other"]

\* sports[ meta['sport'] ], line 742: the label, or "KeyError"
SportLookupDefault(label) == IF label \in DOMAIN sports THEN sports[label] ELSE "other"
SportLookup(label) == IF label \in DOMAIN sports THEN sports[label] ELSE "KeyError"


-----------------------------------------------------------------------------
(* _process_activity: the summary, lines 744-780 *)

NonNull(c) == {i \in 1..Len(c) : ~IsNull(c[i])}

\* Series.max(): NaN is skipped; NaN when nothing is left
NanMax(c) == IF NonNull(c) = {} THEN NaN ELSE MaxOf({c[i] : i \in NonNull(c)})

\* round(Series.mean() * k): the mean skips NaN; c holds whole numbers of 1/u
\* and the result is a whole number of 1/k
NanMeanRound(c, u, k) ==
    IF NonNull(c) = {} THEN NaN
    ELSE RoundHalfEven(k * SumSeq(SelectIdx(c, [i \in 1..Len(c) |-> ~IsNull(c[i])], 1)),
                       u * Cardinality(NonNull(c)))

\* a distance n / den km in metres, rounded: np.round(km, 3)
DistToMetres(n, den) ==
    IF IsNull(n) THEN NaN
    ELSE IF den % 1000 = 0 THEN RoundHalfEven(n, den \div 1000)
    ELSE n * (1000 \div den)

\* df['elevation'].rolling(6).mean() * 6: NaN until 6 rows are there, and NaN
\* while a NaN is in the window
ELE_WINDOW == 6
RollSum(e, w) ==
    [i \in 1..Len(e) |->
        IF i < w \/ \E j \in (i - w + 1)..i : IsNull(e[j]) THEN NaN
        ELSE SumSeq(SubSeq(e, i - w + 1, i))]

\* Series.diff()
Diff(c) == [i \in 1..Len(c) |->
              IF i = 1 \/ IsNull(c[i]) \/ IsNull(c[i-1]) THEN NaN ELSE c[i] - c[i-1]]

SumPositive(c) == SumSeq(SelectIdx(c, [i \in 1..Len(c) |-> ~IsNull(c[i]) /\ c[i] > 0], 1))

\* lines 752-753, in tenths of a metre: the sum of the positive deltas of the
\* 6-sample rolling mean of elevation, rounded to one decimal
ElevationGainRaw(e) == RoundHalfEven(SumPositive(Diff(e)), ElevPerM \div 10)
ElevationGain(e) ==
    RoundHalfEven(SumPositive(Diff(RollSum(e, ELE_WINDOW))), ELE_WINDOW * (ElevPerM \div 10))

\* an average that is 0 when no time was spent moving
SpeedAvgGuarded(dm, t) ==
    IF IsNull(dm) THEN NaN ELSE IF t = 0 THEN 0 ELSE RoundHalfEven(36 * dm, t)

\* distance / (mov_duration.total_seconds() / 3600), in tenths of km/h, line 754;
\* dm is the distance in metres, t the moving seconds; float division by 0.0
SpeedAvg(dm, t) ==
    IF IsNull(dm) THEN NaN
    ELSE IF t = 0 THEN (IF dm > 0 THEN PosInf ELSE IF dm < 0 THEN NegInf ELSE NaN)
    ELSE RoundHalfEven(36 * dm, t)

RoundInf(x, b) == IF IsNum(x) THEN RoundHalfEven(x, b) ELSE x

SummaryKeys ==
    {"distance", "duration", "mov_duration", "elevation", "speed_avg", "speed_max",
     "hr_avg", "hr_max", "power_avg", "power_max", "cadence_avg", "cadence_max",
     "temp_avg", "temp_max"}

\* the metadata a parser hands over: the summary keys do not exist yet
Meta(t, sp) ==
    [k \in {"dtime", "sport", "title", "src_file"} \cup SummaryKeys |->
        IF k = "dtime" THEN t ELSE IF k = "sport" THEN sp
        ELSE IF k = "title" THEN "" ELSE IF k = "src_file" THEN "f" ELSE Absent]

\* lines 745-765; units: distance m, durations s, elevation and speeds and
\* temp_avg tenths, hr/power/cadence averages hundredths, maxima halves,
\* cadence_max whole
Summary(d, den) ==
    LET last == d[Len(d)]
        dm == DistToMetres(last.distance, den)
        cad == Col(d, "cadence")
        pos == [i \in 1..Len(d) |-> IF ~IsNull(cad[i]) /\ cad[i] > 0 THEN cad[i] ELSE NaN]
        cmax == NanMax(cad)
    IN  [distance |-> dm,
         duration |-> last.duration,
         mov_duration |-> last.mov_duration,
         elevation |-> ElevationGain(Col(d, "elevation")),
         speed_avg |-> SpeedAvg(dm, last.mov_duration),
         speed_max |-> RoundInf(NanMax(Col(d, "speed")), SUperKph \div 10),
         hr_avg |-> NanMeanRound(Col(d, "hr"), 2, 100),
         hr_max |-> NanMax(Col(d, "hr")),
         power_avg |-> NanMeanRound(Col(d, "power"), 2, 100),
         power_max |-> NanMax(Col(d, "power")),
         cadence_avg |-> NanMeanRound(pos, 2, 100),
         cadence_max |-> IF IsNull(cmax) THEN NaN ELSE CeilDiv(cmax, 2),
         temp_avg |-> NanMeanRound(Col(d, "temp"), 2, 10),
         temp_max |-> NanMax(Col(d, "temp"))]

\* lines 767-780
NoSummaryZeroDistance == [k \in SummaryKeys |-> IF k = "distance" THEN 0 ELSE NaN]
NoSummary == [k \in SummaryKeys |-> NaN]

WithSummary(m, s) == [k \in DOMAIN m |-> IF k \in SummaryKeys THEN s[k] ELSE m[k]]

\* lines 783-786: elevation and speed to 2 decimals, distance to 3 (metres,
\* kept over the denominator 1000)
RoundRow(r, den) ==
    [r EXCEPT !.elevation = IF IsNull(@) THEN NaN ELSE RoundHalfEven(@, ElevPerM \div 100) * (ElevPerM \div 100),
              !.distance = DistToMetres(@, den),
              !.speed = IF IsNum(@) THEN RoundHalfEven(@, SUperKph \div 100) * (SUperKph \div 100) ELSE @]


-----------------------------------------------------------------------------
(* _process_activity, lines 664-788, one action per stage *)

\* what geopy's distance may answer for two points, in MU
GeoSet == {74990, 900000, 3000000}

Raise(e) ==
    /\ pc' = "raised"
    /\ exc' = e
    /\ UNCHANGED <<call, records, arg_df, df, dden, meta, pw, result, xml, index, job>>

Step(next, d, den, m) ==
    /\ pc' = next
    /\ df' = d
    /\ dden' = den
    /\ meta' = m
    /\ UNCHANGED <<call, records, arg_df, exc, pw, result, xml, index, job>>

\* lines 676-684
Clamp ==
    /\ pc = "clamp"
    /\ Step("movement", [i \in 1..Len(df) |-> ClampRow(df[i])], dden, meta)

\* line 687 on an empty table: .iloc[0] is out of bounds
MovementEmpty ==
    /\ pc = "movement"
    /\ Len(df) = 0
    /\ Raise("IndexError")

\* lines 687-689: assert False
MovementFail ==
    /\ pc = "movement"
    /\ Len(df) > 0
    /\ NoDistanceSource(df[1])
    /\ Raise("AssertionError")

\* lines 690-696 and 700-704: movement from the coordinates, distance from movement
MovementGps ==
    /\ pc = "movement"
    /\ Len(df) > 0
    /\ ~NoDistanceSource(df[1])
    /\ IsNull(df[1].distance)
    /\ \E g \in [GeoRows(df) -> GeoSet] :
          LET mov == GpsMovement(df, g)
              d1 == SetCol(df, "distance", CumSum(mov))
          IN  Step("duration", SetCol(d1, "movement", FinishMovement(d1, MUperKm, mov)),
                   MUperKm, meta)

\* lines 698 and 700-704: movement from the distance
MovementDistance ==
    /\ pc = "movement"
    /\ Len(df) > 0
    /\ ~IsNull(df[1].distance)
    /\ Step("duration",
            SetCol(df, "movement", FinishMovement(df, dden, DistanceDiff(df, dden))),
            dden, meta)

\* lines 707-708
AbsDuration ==
    /\ pc = "duration"
    /\ Step("speed", SetCol(df, "duration", Duration(df)), dden, meta)

\* lines 711-714
RecalcSpeed ==
    /\ pc = "speed"
    /\ LET tick == TickElapsed(df)
       IN  Step("smooth",
                [i \in 1..Len(df) |-> [df[i] EXCEPT !.speed = Speed(df[i].movement, tick[i])]],
                dden, meta)

\* lines 717-721
Smoothen ==
    /\ pc = "smooth"
    /\ LET sp == Rolling1(Col(df, "speed"), 3)
           po == Rolling1(Col(df, "power"), 2)
           h == Rolling1(Col(df, "hr"), 2)
           ca == Rolling1(Col(df, "cadence"), 2)
           te == Rolling1(Col(df, "temp"), 2)
       IN  Step("filter",
                [i \in 1..Len(df) |->
                    [df[i] EXCEPT !.speed = sp[i], !.power = po[i], !.hr = h[i],
                                  !.cadence = ca[i], !.temp = te[i]]],
                dden, meta)

\* lines 724-725
Filter ==
    /\ pc = "filter"
    /\ Step("mov_duration", RemoveNonMovement(df), dden, meta)

\* line 728
MovingTime ==
    /\ pc = "mov_duration"
    /\ Step("sport", SetCol(df, "mov_duration", MovDuration(Len(df))), dden, meta)

\* line 742, label in the table
SportOk ==
    /\ pc = "sport"
    /\ SportLookup(meta.sport) # "KeyError"
    /\ Step("summary", df, dden, [meta EXCEPT !.sport = SportLookup(meta.sport)])

\* line 742, label not in the table
SportFail ==
    /\ pc = "sport"
    /\ SportLookup(meta.sport) = "KeyError"
    /\ Raise("KeyError")

\* lines 744-780
Summarize ==
    /\ pc = "summary"
    /\ Step("round", df, dden,
            WithSummary(meta, IF Len(df) > 0 THEN Summary(df, dden) ELSE NoSummary))

\* lines 783-788
RoundAndReturn ==
    /\ pc = "round"
    /\ Step("done", [i \in 1..Len(df) |-> RoundRow(df[i], dden)], 1000, meta)

ProcessActivity ==
    \/ Clamp
    \/ MovementEmpty
    \/ MovementFail
    \/ MovementGps
    \/ MovementDistance
    \/ AbsDuration
    \/ RecalcSpeed
    \/ Smoothen
    \/ Filter
    \/ MovingTime
    \/ SportOk
    \/ SportFail
    \/ Summarize
    \/ RoundAndReturn


-----------------------------------------------------------------------------
(* parse_fit_records, lines 918-1008 *)

\* a decoded record: tkey is the time key it carries; a key the record lacks
\* reads as NaN (data.get(key, np.NaN)), a missing time as NaN (None)
Record(k, t, la, lo, al, di, h, ca, sp, po, te) ==
    [tkey |-> k, time |-> t, lat |-> la, long |-> lo, altitude |-> al, distance |-> di,
     hr |-> h, cadence |-> ca, speed |-> sp, power |-> po, temp |-> te]

\* pd.Timedelta(hours=7), line 947
WIB_HOURS == 7

\* lines 923-947: one row per record
FitRow(r) ==
    Row(r.time + WIB_HOURS * 3600, r.lat, r.long, r.altitude, r.distance, r.hr,
        r.cadence, r.speed, r.power, r.temp)

\* df['latt'].max() > 90 or df['latt'].min() < -90, line 967 (NaN is skipped)
LAT_MAX == 90
LatOutOfRange(d) ==
    \E i \in 1..Len(d) : ~IsNullC(d[i].latt) /\ (DyGt(d[i].latt, LAT_MAX) \/ DyLt(d[i].latt, -LAT_MAX))

\* lines 959-969: whether the coordinates are taken for semicircles
IsSemicircle(recs, d) ==
    /\ recs[1].tkey = "timestamp"
    /\ ~IsNullC(d[1].latt)
    /\ LatOutOfRange(d)

\* lines 981-991: what the distance column is divided by, given its maximum
KM_LIMIT == 1000
M_LIMIT == 1000000
DistanceDivisorShifted(maxd) ==
    IF IsNull(maxd) THEN 1
    ELSE IF maxd <= KM_LIMIT THEN 1
    ELSE IF maxd <= M_LIMIT THEN 1000
    ELSE 100000
DistanceDivisor(maxd) ==
    IF IsNull(maxd) THEN 1
    ELSE IF maxd < KM_LIMIT THEN 1
    ELSE IF maxd < M_LIMIT THEN 1000
    ELSE 100000

\* lines 1002-1006: has_power or len(df[ df['speed'] > 20 ]) > 120
SPEED_CYCLING == 20
COUNT_CYCLING == 120
GuessSportAtLeast(d) ==
    IF \/ \E i \in 1..Len(d) : ~IsNull(d[i].power)
       \/ Cardinality({i \in 1..Len(d) : ~IsNull(d[i].speed) /\ d[i].speed > SPEED_CYCLING * SUperKph})
            >= COUNT_CYCLING
    THEN "cycling" ELSE "running"
GuessSport(d) ==
    IF \/ \E i \in 1..Len(d) : ~IsNull(d[i].power)
       \/ Cardinality({i \in 1..Len(d) : ~IsNull(d[i].speed) /\ d[i].speed > SPEED_CYCLING * SUperKph})
            > COUNT_CYCLING
    THEN "cycling" ELSE "running"

\* line 925: a record without a time
FitNoTime ==
    /\ pc = "parse_fit"
    /\ \E i \in 1..Len(records) : IsNull(records[i].time)
    /\ Raise("AssertionError")

\* line 947 on pd.DataFrame([]): the table has no dtime column
FitEmpty ==
    /\ pc = "parse_fit"
    /\ Len(records) = 0
    /\ Raise("KeyError")

\* lines 920-1008 up to the call of _process_activity
ParseFitRecords ==
    /\ pc = "parse_fit"
    /\ Len(records) > 0
    /\ \A i \in 1..Len(records) : ~IsNull(records[i].time)
    /\ LET d0 == [i \in 1..Len(records) |-> FitRow(records[i])]
           semi == IsSemicircle(records, d0)
           d1 == [i \in 1..Len(d0) |->
                    IF semi THEN [d0[i] EXCEPT !.latt = SemiToDeg(@), !.long = SemiToDeg(@)]
                    ELSE d0[i]]
           den == IF records[1].tkey = "timestamp"
                  THEN DistanceDivisor(NanMax(Col(d1, "distance"))) ELSE 1
           m1 == [meta EXCEPT !.dtime = IF IsNull(@) THEN d1[1].dtime ELSE @]
           m2 == [m1 EXCEPT !.sport = IF @ = "" THEN GuessSport(d1) ELSE @]
       IN  /\ pc' = "clamp"
           /\ df' = d1
           /\ arg_df' = d1
           /\ dden' = den
           /\ meta' = m2
           /\ UNCHANGED <<call, records, exc, pw, result, xml, index, job>>

-----------------------------------------------------------------------------
(* calc_max_powers, lines 632-662; power in halves of a watt *)

MIN_POWER == 20
MAX_POWER_CURVE == 3000

\* lines 639-646
Periods ==
    (1..29) \cup {30 + 5 * k : k \in 0..5} \cup {60 + 10 * k : k \in 0..5}
    \cup {120 + 30 * k : k \in 0..5} \cup {300 + 60 * k : k \in 0..14}
    \cup {1200 + 300 * k : k \in 0..19} \cup {7200 + 600 * k : k \in 0..60}

\* lines 648-657: dropna, then the rows with MIN_POWER <= power <= MAX_POWER
PowerRows(p) ==
    SelectIdx(p, [i \in 1..Len(p) |->
                    ~IsNull(p[i]) /\ p[i] >= Half(MIN_POWER) /\ p[i] <= Half(MAX_POWER_CURVE)], 1)

RECURSIVE WindowSums(_, _, _, _)
\* the sums of the windows of p rows ending at rows i..Len(c), given the sum s
\* of the window ending at row i
WindowSums(c, p, i, s) ==
    IF i = Len(c) THEN {s}
    ELSE {s} \cup WindowSums(c, p, i + 1, s + c[i + 1] - c[i + 1 - p])

\* round(df['power'].rolling(p).mean().max(), 1), line 661, in tenths of a watt
RollingMaxWide(c, p) ==
    IF Len(c) < p + 1 THEN NaN
    ELSE RoundHalfEven(5 * MaxOf(WindowSums(c, p + 1, p + 1, SumSeq(SubSeq(c, 1, p + 1)))), p + 1)
RollingMax(c, p) ==
    IF Len(c) < p THEN NaN
    ELSE RoundHalfEven(5 * MaxOf(WindowSums(c, p, p, SumSeq(SubSeq(c, 1, p)))), p)

\* lines 634-657: nothing to compute, {} is returned
CalcNothing ==
    /\ pc = "calc"
    /\ Len(PowerRows(pw)) = 0
    /\ pc' = "done"
    /\ result' = <<>>
    /\ UNCHANGED <<call, records, arg_df, df, dden, meta, exc, pw, xml, index, job>>

\* lines 659-662
CalcMaxPowers ==
    /\ pc = "calc"
    /\ Len(PowerRows(pw)) > 0
    /\ pc' = "done"
    /\ result' = [p \in Periods |-> RollingMax(PowerRows(pw), p)]
    /\ UNCHANGED <<call, records, arg_df, df, dden, meta, exc, pw, xml, index, job>>


-----------------------------------------------------------------------------
(* The inputs *)

MaxLen == 3
ElevLen == 7
PowLen == 100
SpeedLen == 121

\* the denominator of the distance column of a table passed to
\* _process_activity directly: distances in units of 0.1 mm
ProcDen == MUperKm \div 9

M(x) == x * ElevPerM
Deg(n) == Dy(n)

NomRow(t, di) ==
    Row(t, Deg(45), Deg(100), M(100), di, Half(150), Half(90), NaN, Half(200), Half(25))

\* timestamps: equal, ascending and descending neighbours
TimeSet == {0, 1, 2}
\* distances (0.1 mm): missing, none, 0.8333 m, 0.8335 m, 40 m
DistSet == {NaN, 0, 8333, 8335, 400000}

TablesDist ==
    UNION {{[i \in 1..n |-> NomRow(i, f[i])] : f \in [1..n -> DistSet]} : n \in 0..MaxLen}

\* timestamps in any order; a sample is at the start or 40 m on for every row
TablesTime ==
    UNION {{[i \in 1..n |-> NomRow(f[i][1], f[i][2] * i)] : f \in [1..n -> TimeSet \X {0, 400000}]}
           : n \in 1..MaxLen}

\* no distance column (GPX): the coordinates decide
TablesGps ==
    UNION {{[i \in 1..n |-> Row(i, f[i], f[i], M(100), NaN, Half(150), Half(90), NaN,
                                 Half(200), Half(25))]
            : f \in [1..n -> {NaNCoord, Deg(45)}]} : n \in 1..MaxLen}

\* elevation, hr, cadence, speed, power, temp: missing, nominal, at the
\* ceiling, above the ceiling, at or below zero
SensorSet ==
    {<<NaN, NaN, NaN, NaN, NaN, NaN>>,
     <<M(100), Half(150), Half(90), 30 * SUperKph, Half(200), Half(25)>>,
     <<M(9000), Half(250), Half(210), 100 * SUperKph, Half(2500), Half(55)>>,
     <<M(9000) + 1, Half(251), Half(211), 101 * SUperKph, Half(2501), Half(56)>>,
     <<M(-50), Half(40), 0, 0, 0, Half(-5)>>}

\* 5 m a second
Moving5(i) == 50000 * i

TablesSensor ==
    UNION {{[i \in 1..n |-> Row(i, Deg(45), Deg(100), f[i][1], Moving5(i), f[i][2], f[i][3],
                                 f[i][4], f[i][5], f[i][6])]
            : f \in [1..n -> SensorSet]} : n \in 1..MaxLen}

ElevSet == {0, M(300), M(600)}

TablesElev ==
    UNION {{[i \in 1..n |-> Row(i, Deg(45), Deg(100), f[i], Moving5(i), Half(150), Half(90),
                                 NaN, Half(200), Half(25))]
            : f \in [1..n -> ElevSet]} : n \in (ElevLen - 1)..ElevLen}

SportLabels == DOMAIN sports \cup {"unicycling", "Cycling", ""}

\* the decoded records of a .fit file. The distance of a record is cumulative.
FitDistSet == {NaN, 0, 999, 1000, 999999, 1000000, 1500000}
NonDecreasing(f, n) ==
    \A i, j \in 1..n : (i < j /\ ~IsNull(f[i]) /\ ~IsNull(f[j])) => f[i] <= f[j]

FitRecord(k, t, la, lo, di, po) ==
    Record(k, t, la, lo, M(100), di, Half(150), Half(90), NaN, po, Half(25))

\* a record with the "time" key comes from the Zwift client: its distance is in km
ShapeDistSet(k) == IF k = "timestamp" THEN FitDistSet ELSE {x \in FitDistSet : x < KM_LIMIT}

RecordsDistance ==
    UNION {UNION {{[i \in 1..n |-> FitRecord(k, i, la, la, f[i], NaN)]
                   : f \in {g \in [1..n -> ShapeDistSet(k)] : NonDecreasing(g, n)},
                     la \in {NaNCoord, Deg(45)}}
                  : k \in {"timestamp", "time"}}
           : n \in 0..MaxLen}

\* latitude and longitude: missing, degrees, semicircles (2^30, -2^31),
\* a longitude alone out of range, 91
CoordSet ==
    {<<NaNCoord, NaNCoord>>, <<Deg(45), Deg(100)>>,
     <<[m |-> 1, e |-> 30], [m |-> -1, e |-> 31]>>,
     <<Deg(50), [m |-> 1, e |-> 30]>>, <<Deg(91), Deg(10)>>}

RecordsCoord ==
    UNION {{[i \in 1..n |-> FitRecord(k, i, f[i][1], f[i][2], 1000 + 5 * i, NaN)]
            : f \in [1..n -> CoordSet], k \in {"timestamp", "time"}}
           : n \in 1..MaxLen}

RecordsPower ==
    {[i \in 1..2 |-> FitRecord(k, IF i = 2 THEN t ELSE 1, Deg(45), Deg(100), 1000 + 5 * i,
                               IF i = 2 THEN po ELSE NaN)]
     : k \in {"timestamp", "time"}, t \in {NaN, 2}, po \in {NaN, Half(200)}}

\* long recordings without power: SpeedLen - 1 or SpeedLen records 5 m apart,
\* all at 21 km/h but the first slow ones, which are at 20 km/h or have no speed
SlowSet == {NaN, SPEED_CYCLING * SUperKph}
RecordsSpeed ==
    UNION {{[i \in 1..n |->
               [FitRecord("timestamp", i, Deg(45), Deg(100), 1000 + 5 * i, NaN)
                   EXCEPT !.speed = IF i <= slow THEN v ELSE (SPEED_CYCLING + 1) * SUperKph]]
            : slow \in 0..2, v \in SlowSet}
           : n \in (SpeedLen - 1)..SpeedLen}

\* power columns: PowLen - 1 or PowLen samples of one value, one of them
\* possibly replaced
PowerSet == {NaN, Half(19), Half(200), Half(400), Half(3001)}
PowerCols ==
    UNION {{[i \in 1..n |-> IF i = j THEN q ELSE p] : p \in PowerSet, q \in PowerSet,
                                                       j \in {1, n \div 2, n}}
           : n \in (PowLen - 1)..PowLen}

NoMeta == Meta(NaN, "")
NoResult == <<>>
\* no call of xml_path_val and no job on the index
NoXml == <<>>
NoJob == <<>>
\* the profile directory before anything was saved: no activities.csv, no
\* activity file
NoIndex == [exists |-> FALSE, rows |-> <<>>, saved |-> {}]

InitProcess(tables, labels) ==
    /\ call = "_process_activity"
    /\ pc = "clamp"
    /\ records = <<>>
    /\ arg_df \in tables
    /\ df = arg_df
    /\ dden = ProcDen
    /\ meta \in {Meta(IF Len(arg_df) > 0 THEN arg_df[1].dtime ELSE NaN, l) : l \in labels}
    /\ exc = "none"
    /\ pw = <<>>
    /\ result = NoResult
    /\ xml = NoXml
    /\ index = NoIndex
    /\ job = NoJob

InitFit(recs, labels) ==
    /\ call = "parse_fit_records"
    /\ pc = "parse_fit"
    /\ records \in recs
    /\ arg_df = <<>>
    /\ df = <<>>
    /\ dden = 1
    /\ meta \in {Meta(NaN, l) : l \in labels}
    /\ exc = "none"
    /\ pw = <<>>
    /\ result = NoResult
    /\ xml = NoXml
    /\ index = NoIndex
    /\ job = NoJob

InitCalc ==
    /\ call = "calc_max_powers"
    /\ pc = "calc"
    /\ records = <<>>
    /\ arg_df = <<>>
    /\ df = <<>>
    /\ dden = 1
    /\ meta = NoMeta
    /\ exc = "none"
    /\ pw \in PowerCols \cup {<<>>}
    /\ result = NoResult
    /\ xml = NoXml
    /\ index = NoIndex
    /\ job = NoJob

Init ==
    \/ InitProcess(TablesDist \cup TablesTime \cup TablesGps \cup TablesSensor \cup TablesElev,
                   {"virtualride"})
    \/ InitProcess({[i \in 1..2 |-> NomRow(i, Moving5(i))]}, SportLabels)
    \/ InitFit(RecordsDistance \cup RecordsCoord \cup RecordsSpeed, {""})
    \/ InitFit(RecordsPower, {"", "run", "unicycling"})
    \/ InitCalc

Next ==
    \/ ProcessActivity
    \/ FitNoTime
    \/ FitEmpty
    \/ ParseFitRecords
    \/ CalcNothing
    \/ CalcMaxPowers

Spec == Init /\ [][Next]_vars


-----------------------------------------------------------------------------
(* Properties *)

\* _process_activity has returned (directly, or at the end of parse_fit_records)
Returned == call \in {"_process_activity", "parse_fit_records"} /\ pc = "done"

\* C1: the table _process_activity returns has mov_duration 0 on its first
\* row and exactly 1 more than the previous row on every later row.
C1_MovDurationSequential ==
    Returned =>
        \A i \in 1..Len(df) :
            df[i].mov_duration = IF i = 1 THEN 0 ELSE df[i-1].mov_duration + 1

\* a table was returned from which stationary removal took rows and left several
C1_Witness ==
    /\ Returned
    /\ Len(df) >= 2
    /\ Len(df) < Len(arg_df)

Chronological(d) == \A i \in 2..Len(d) : d[i-1].dtime <= d[i].dtime
DurationNonDecreasing(d) == \A i \in 2..Len(d) : d[i-1].duration <= d[i].duration

\* C2 as stated: for every table given to _process_activity, the duration
\* column of the returned table is non-decreasing from each row to the next.
C2_DurationNonDecreasing == Returned => DurationNonDecreasing(df)

\* C2 amended: when the timestamps of the table given to _process_activity
\* are non-decreasing in file order, the duration column of the returned table
\* is non-decreasing from each row to the next.
C2_DurationNonDecreasingChrono ==
    (Returned /\ Chronological(arg_df)) => DurationNonDecreasing(df)

\* a returned table of chronological samples whose duration rises and repeats
C2_Witness ==
    /\ Returned
    /\ Chronological(arg_df)
    /\ Len(df) >= 3
    /\ \E i \in 2..Len(df) : df[i-1].duration < df[i].duration
    /\ \E i \in 2..Len(df) : df[i-1].duration = df[i].duration

\* the ceilings of the clamp step, in the units of the columns
Ceiling ==
    [elevation |-> 9000 * ElevPerM, hr |-> Half(250), power |-> Half(2500),
     cadence |-> Half(210), speed |-> 100 * SUperKph, temp |-> Half(55)]

\* C3: after the clamp step every sample is still there, and each of
\* elevation, heart rate, power, cadence, speed and temperature is at most its
\* ceiling (9000, 250, 2500, 210, 100, 55) and at most the input value; a value
\* above the ceiling has become the ceiling (a missing value stays missing).
C3_ClampNeverExceeds ==
    (pc = "movement" /\ call \in {"_process_activity", "parse_fit_records"}) =>
        /\ Len(df) = Len(arg_df)
        /\ \A i \in 1..Len(df) : \A f \in DOMAIN Ceiling :
              LET x == arg_df[i][f]
                  y == df[i][f]
              IN  IF IsNull(x) THEN IsNull(y)
                  ELSE /\ y <= Ceiling[f]
                       /\ y <= x
                       /\ (x > Ceiling[f] => y = Ceiling[f])

\* the clamp step has capped a sample that was above every ceiling
C3_Witness ==
    /\ pc = "movement"
    /\ \E i \in 1..Len(df) : \A f \in DOMAIN Ceiling :
          arg_df[i][f] > Ceiling[f] /\ df[i][f] = Ceiling[f]

ProcessStages ==
    {"clamp", "movement", "duration", "speed", "smooth", "filter", "mov_duration",
     "sport", "summary", "round"}

\* min_kph * 1000 / 3600 metres for min_kph = 3, in MU
Threshold3Kph == (3 * 1000 * MUperM) \div 3600

BelowThreshold(d) ==
    {i \in 1..Len(d) : ~IsNull(d[i].movement) /\ d[i].movement < Threshold3Kph}
MissingMovement(d) == {i \in 1..Len(d) : IsNull(d[i].movement)}

\* a step of _process_activity drops rows only in stationary removal, and
\* there as many as have a movement below the threshold
RemovesBelowThresholdOnly ==
    pc \in ProcessStages =>
        Len(df') = Len(df) - (IF pc = "filter" THEN Cardinality(BelowThreshold(df)) ELSE 0)

\* C4 as stated: the returned table is shorter than the input by exactly the
\* number of samples whose movement is below the threshold: stationary removal
\* drops that many rows and no other step of _process_activity drops a row.
C4_RemovesBelowThresholdOnly == [][RemovesBelowThresholdOnly]_vars

\* a step of _process_activity drops rows only in stationary removal, and
\* there as many as have a movement below the threshold or missing
RemovesBelowThresholdOrMissing ==
    pc \in ProcessStages =>
        /\ Len(df') = Len(df) - (IF pc = "filter"
                                 THEN Cardinality(BelowThreshold(df) \cup MissingMovement(df))
                                 ELSE 0)
        /\ pc = "filter" => \A j \in 1..Len(df') : df'[j].movement >= Threshold3Kph

\* C4 amended: the returned table is shorter than the input by exactly the
\* number of samples whose movement is below the threshold or missing:
\* stationary removal drops those rows, every row it keeps has a movement of at
\* least the threshold, and no other step of _process_activity drops a row.
C4_RemovesBelowThresholdOrMissing == [][RemovesBelowThresholdOrMissing]_vars

\* stationary removal has dropped a sample whose movement was missing because
\* a later sample had no distance
C4_Witness ==
    /\ pc = "mov_duration"
    /\ Len(df) < Len(arg_df)
    /\ ~IsNull(arg_df[1].distance)
    /\ \E i \in 2..Len(arg_df) : IsNull(arg_df[i].distance)
    /\ \A i \in 1..Len(arg_df) : IsNull(arg_df[i].distance) \/ arg_df[i].distance >= 400000 * i

\* parse_fit_records has built the table and is about to call _process_activity
FitParsed == call = "parse_fit_records" /\ pc = "clamp"

RecDistances == {records[i].distance : i \in 1..Len(records)} \ {NaN}

OutOfRange(c, lim) == ~IsNullC(c) /\ (DyGt(c, lim) \/ DyLt(c, -lim))

\* C6 as stated: when any latitude or longitude of the record list lies
\* outside the valid degree range, every latitude and longitude is converted
\* by value * 180 / 2^31 (so that a latitude of 2^30 becomes 90.0).
C6_SemicircleConversion ==
    (/\ FitParsed
     /\ \E i \in 1..Len(records) :
           OutOfRange(records[i].lat, 90) \/ OutOfRange(records[i].long, 180)) =>
        \A i \in 1..Len(df) :
            /\ df[i].latt = SemiToDeg(records[i].lat)
            /\ df[i].long = SemiToDeg(records[i].long)
            /\ records[i].lat = [m |-> 1, e |-> 30] => df[i].latt = Dy(90)

Constant200(c) == \A i \in 1..Len(c) : c[i] = Half(200)

\* C7: for 100 (or more) consecutive samples of 200 W, calc_max_powers returns
\* exactly 200.0 for every ladder duration of at most 100 seconds.
C7_ConstantPowerCurve ==
    (call = "calc_max_powers" /\ pc = "done" /\ Len(pw) >= 100 /\ Constant200(pw)) =>
        /\ DOMAIN result = Periods
        /\ \A p \in Periods : p <= 100 => result[p] = 2000

\* the curve of exactly 100 samples of 200 W was returned, 100 s included
C7_Witness ==
    /\ call = "calc_max_powers"
    /\ pc = "done"
    /\ Len(pw) = 100
    /\ Constant200(pw)
    /\ 100 \in DOMAIN result
    /\ result[100] = 2000

\* the canonicalization step on a label of the table and on any other label
SportCanonical ==
    pc = "sport" =>
        IF meta.sport \in DOMAIN sports
        THEN /\ pc' = "summary"
             /\ meta'.sport \in {"cycling", "running", "other"}
             /\ meta.sport = "virtualride" => meta'.sport = "cycling"
        ELSE /\ pc' = "raised"
             /\ exc' = "KeyError"

\* C8: sport canonicalization maps every label of the lookup table to one of
\* cycling, running, other ("virtualride" to "cycling") and goes on; for a
\* label that is not in the table the activity fails and nothing is returned.
C8_SportCanonical == [][SportCanonical]_vars

\* the label "unicycling" has ended the run with an error
C8_Witness ==
    /\ pc = "raised"
    /\ exc = "KeyError"
    /\ meta.sport = "unicycling"

NoNaN(c) == \A i \in 1..Len(c) : ~IsNull(c[i])
Pos(x) == IF x > 0 THEN x ELSE 0

\* the 6-sample rolling mean of e at row i >= 6, times 6
Smooth6(e, i) == e[i] + e[i-1] + e[i-2] + e[i-3] + e[i-4] + e[i-5]

RECURSIVE PosRise(_, _)
\* the sum over rows 7..i of the positive part of the rise of the rolling mean
PosRise(e, i) == IF i < 7 THEN 0 ELSE Pos(Smooth6(e, i) - Smooth6(e, i - 1)) + PosRise(e, i - 1)

\* C9: the elevation gain of the summary is the sum of the positive deltas of
\* the 6-sample rolling mean of elevation over the surviving samples, rounded
\* to 0.1 m: a flat series gives 0, and a non-decreasing smoothed series gives
\* its total rise (100 m for a total rise of 100 m).
C9_ElevationGain ==
    (pc = "round" /\ Len(df) > 0 /\ NoNaN(Col(df, "elevation"))) =>
        LET e == Col(df, "elevation")
            n == Len(df)
        IN  /\ meta.elevation = RoundHalfEven(PosRise(e, n), 600)
            /\ (\A i \in 1..n : e[i] = e[1]) => meta.elevation = 0
            /\ (n >= 7 /\ \A i \in 7..n : Smooth6(e, i) >= Smooth6(e, i - 1)) =>
                  meta.elevation = RoundHalfEven(Smooth6(e, n) - Smooth6(e, 6), 600)

\* a smoothed series that never falls and rises by 100 m in all gave 100.0
C9_Witness ==
    /\ pc = "round"
    /\ Len(df) >= 7
    /\ NoNaN(Col(df, "elevation"))
    /\ \A i \in 7..Len(df) : Smooth6(Col(df, "elevation"), i) >= Smooth6(Col(df, "elevation"), i - 1)
    /\ Smooth6(Col(df, "elevation"), Len(df)) - Smooth6(Col(df, "elevation"), 6) = 6 * 100 * ElevPerM
    /\ meta.elevation = 1000

NoSource(d) ==
    /\ Len(d) > 0
    /\ IsNull(d[1].distance)
    /\ IsNullC(d[1].latt)
    /\ IsNullC(d[1].long)

\* C10: when the first sample given to _process_activity has neither a
\* distance nor coordinates, the run fails at the movement step with the
\* "cannot determine distance" assertion and returns nothing.
C10_NoDistanceSourceFails ==
    (pc \notin {"parse_fit", "clamp", "movement", "calc"} /\ NoSource(arg_df)) =>
        (pc = "raised" /\ exc = "AssertionError")

\* a table of several samples whose first has no distance and no coordinates failed
C10_Witness ==
    /\ pc = "raised"
    /\ exc = "AssertionError"
    /\ Len(arg_df) >= 2
    /\ NoSource(arg_df)


-----------------------------------------------------------------------------
(* _process_activity: failures and recovered anomalies *)

\* _process_activity was entered and ended by raising
ProcessRaised ==
    /\ pc = "raised"
    /\ call = "_process_activity" \/ Len(arg_df) > 0

\* the two failures the normaliser is meant to have
HardFailure ==
    \/ exc = "AssertionError" /\ Len(arg_df) > 0 /\ NoDistanceSource(arg_df[1])
    \/ exc = "KeyError" /\ meta.sport \notin DOMAIN sports

\* every value of a returned row is missing or within its ceiling
Recovered(r) ==
    /\ IsNull(r.elevation) \/ r.elevation <= MAX_ELE * ElevPerM
    /\ IsNull(r.hr) \/ r.hr <= Half(MAX_HR)
    /\ IsNull(r.power) \/ r.power <= Half(MAX_POWER)
    /\ IsNull(r.cadence) \/ r.cadence <= Half(MAX_CADENCE)
    /\ IsNull(r.temp) \/ r.temp <= Half(MAX_TEMP)
    /\ IsNull(r.speed) \/ (IsNum(r.speed) /\ r.speed <= MAX_SPEED * SUperKph)
    /\ IsNum(r.movement) /\ r.movement <= MaxMovement

\* C11: _process_activity raises only for an undeterminable distance source
\* or an unrecognised sport label; on every other input it returns, and every
\* value of the returned table is missing or within its ceiling.
C11_OnlyHardFailuresRaise ==
    /\ ProcessRaised => HardFailure
    /\ Returned => \A i \in 1..Len(df) : Recovered(df[i])

\* the same for the tables that hold at least one sample
NonEmptyOnlyHardFailuresRaise ==
    Len(arg_df) > 0 => C11_OnlyHardFailuresRaise


-----------------------------------------------------------------------------
(* _process_activity: the summary *)

\* the summary has been written (lines 744-780 are behind)
Summarized == call \in {"_process_activity", "parse_fit_records"} /\ pc \in {"round", "done"}

\* C12: once the summary is written, when no sample survived the removal of
\* the stationary ones every one of the 14 summary fields is missing (NaN);
\* when at least one survived, the fields are computed from the survivors:
\* duration and moving duration are those of the last survivor and no field
\* is left unset.
C12_SummaryOnlyWithSurvivors ==
    Summarized =>
        /\ Len(df) = 0 => \A k \in SummaryKeys : meta[k] = NaN
        /\ Len(df) > 0 =>
              /\ meta.duration = df[Len(df)].duration
              /\ meta.mov_duration = Len(df) - 1
              /\ \A k \in SummaryKeys : meta[k] # Absent
              /\ \E k \in SummaryKeys : meta[k] # NaN

\* a table of several samples, none of which moved, was returned with an
\* all-missing summary
C12_Witness ==
    /\ Returned
    /\ Len(arg_df) >= 2
    /\ Len(df) = 0
    /\ \A k \in SummaryKeys : meta[k] = NaN

\* C22: once the summary is written, when exactly one sample survived the
\* removal of the stationary ones the moving duration of the summary is 0
\* seconds and speed_avg, the distance divided by zero hours, is not a finite
\* number: it is infinite when the distance is not zero and NaN when the
\* distance is zero or missing.
C22_SingleSurvivorSpeedAvg ==
    (Summarized /\ Len(df) = 1) =>
        /\ meta.mov_duration = 0
        /\ meta.speed_avg \in {PosInf, NegInf, NaN}
        /\ meta.speed_avg = PosInf <=> (IsNum(meta.distance) /\ meta.distance > 0)
        /\ meta.speed_avg = NegInf <=> (IsNum(meta.distance) /\ meta.distance < 0)

\* of several samples one survived, at a distance above zero: the average
\* speed returned is infinite
C22_Witness ==
    /\ Returned
    /\ Len(arg_df) >= 2
    /\ Len(df) = 1
    /\ meta.mov_duration = 0
    /\ meta.distance > 0
    /\ meta.speed_avg = PosInf

\* two survivors: the average speed is a number
TwoSurvivorsFinite ==
    Returned /\ Len(df) = 2 /\ meta.mov_duration = 1 /\ IsNum(meta.speed_avg)


-----------------------------------------------------------------------------
(* _process_activity: movement *)

WholeMillimetres(m) == m % MUperMM = 0

\* C13 as stated: every movement of the returned table is at most the
\* per-tick maximum of 100 km/h (100 * 1000 / 3600 metres) and is a whole
\* number of millimetres.
C13_MovementClampedAndRounded ==
    Returned =>
        \A i \in 1..Len(df) :
            /\ df[i].movement <= MaxMovement
            /\ WholeMillimetres(df[i].movement)

\* C13, amended: every movement of the returned table is at most the per-tick
\* maximum of 100 km/h; a movement below the maximum is a whole number of
\* millimetres, and a movement that was clamped is the maximum itself
\* (100000 / 3600 metres, which is not a whole number of millimetres), because
\* the rounding of line 701 comes before the clamp of line 704.
C13_MovementClampedAfterRounding ==
    Returned =>
        \A i \in 1..Len(df) :
            /\ df[i].movement <= MaxMovement
            /\ df[i].movement = MaxMovement \/ WholeMillimetres(df[i].movement)

\* a returned table with a movement that was rounded (0.8335 m to 0.834 m) and
\* a movement that was clamped (39 m to the maximum)
C13_Witness ==
    /\ Returned
    /\ Len(df) >= 2
    /\ arg_df[1].distance = 8335
    /\ df[1].movement = 834 * MUperMM
    /\ \E i \in 2..Len(df) : df[i].movement = MaxMovement


\* the movement step (lines 686-704) has just been taken
MovementDone == call \in {"_process_activity", "parse_fit_records"} /\ pc = "duration"

\* x km-units of the distance column in MU, rounded to the millimetre and
\* clamped to the per-tick maximum; f is the number of MU in one unit of the
\* distance column
ClampedMetres(x, f) ==
    IF x > MaxMovement \div f + 1 THEN MaxMovement
    ELSE LET mm == RoundHalfEven(x * f, MUperMM) * MUperMM
         IN  IF mm > MaxMovement THEN MaxMovement ELSE mm

\* C14: when the first sample of the table given to _process_activity has a
\* distance, after the movement step the movement of the first sample is its
\* distance times 1000, the movement of every later sample is its distance
\* minus the previous sample's distance, times 1000 (missing when either is
\* missing), each then rounded and clamped, and the distance column is the one
\* that was given.
C14_MovementFromDistance ==
    (MovementDone /\ ~IsNull(arg_df[1].distance)) =>
        /\ Len(df) = Len(arg_df)
        /\ \A i \in 1..Len(df) : df[i].distance = arg_df[i].distance
        /\ df[1].movement = ClampedMetres(arg_df[1].distance, MUperKm \div dden)
        /\ \A i \in 2..Len(df) :
              IF IsNull(arg_df[i].distance) \/ IsNull(arg_df[i-1].distance)
              THEN df[i].movement = NaN
              ELSE df[i].movement =
                     ClampedMetres(arg_df[i].distance - arg_df[i-1].distance, MUperKm \div dden)

\* three samples 5 m apart: each movement is 5 m
C14_Witness ==
    /\ MovementDone
    /\ Len(df) = 3
    /\ \A i \in 1..3 : arg_df[i].distance = Moving5(i) /\ df[i].movement = 5 * MUperM


-----------------------------------------------------------------------------
(* _process_activity: speed *)

\* the speed has been recomputed and not smoothed yet (lines 710-714 are behind)
SpeedRecomputed == call \in {"_process_activity", "parse_fit_records"} /\ pc = "smooth"

\* the seconds from the previous sample of the table that was given, 1 for
\* the first sample
Delta(i) == IF i = 1 THEN 1 ELSE arg_df[i].dtime - arg_df[i-1].dtime

\* movement (MU) over a time delta (s) in SU, capped at 100 km/h
CappedKph(mov, delta) ==
    LET s == (36 * mov) \div (5 * delta)
    IN  IF s > 100 * SUperKph THEN 100 * SUperKph ELSE s

\* the speed of sample i is the movement over the time delta, whatever was
\* parsed; infinite is what the quotient is when the delta is zero
SpeedFromMovement(i, infinite) ==
    IF IsNull(df[i].movement) THEN df[i].speed = NaN
    ELSE IF Delta(i) = 0 THEN df[i].speed \in infinite
    ELSE df[i].speed = CappedKph(df[i].movement, Delta(i))

\* C15: before smoothing, the speed of every sample is its movement divided
\* by the time delta to the previous sample (1 second for the first sample),
\* whatever speed was parsed; it is missing when the time delta is zero, and
\* 100 when the quotient is over 100 km/h; no speed of the returned table
\* exceeds 100.
C15_SpeedRecomputed ==
    /\ SpeedRecomputed => \A i \in 1..Len(df) : SpeedFromMovement(i, {NaN})
    /\ Returned => \A i \in 1..Len(df) : IsNull(df[i].speed) \/ df[i].speed <= 100 * SUperKph

\* the same, with a zero time delta leaving minus infinity where the movement
\* is negative: line 713 replaces plus infinity only
SpeedRecomputedButMinusInf ==
    /\ SpeedRecomputed =>
          \A i \in 1..Len(df) :
              SpeedFromMovement(i, IF df[i].movement < 0 THEN {NegInf} ELSE {NaN})
    /\ Returned =>
          \A i \in 1..Len(df) :
              IsNull(df[i].speed) \/ (IsNum(df[i].speed) /\ df[i].speed <= 100 * SUperKph)

\* a parsed speed was replaced
SpeedReplaced ==
    /\ SpeedRecomputed
    /\ \E i \in 1..Len(df) : IsNum(arg_df[i].speed) /\ IsNum(df[i].speed)
                               /\ df[i].speed # arg_df[i].speed

\* a zero time delta gave a missing speed
SpeedMissing ==
    /\ SpeedRecomputed
    /\ \E i \in 2..Len(df) : Delta(i) = 0 /\ df[i].movement > 0 /\ df[i].speed = NaN

\* a quotient over 100 km/h was capped
SpeedCapped ==
    /\ SpeedRecomputed
    /\ \E i \in 2..Len(df) :
          /\ Delta(i) # 0
          /\ IsNum(df[i].movement)
          /\ (36 * df[i].movement) \div (5 * Delta(i)) > 100 * SUperKph
          /\ df[i].speed = 100 * SUperKph


-----------------------------------------------------------------------------
(* parse_fit_records: the sport *)

HasPower == \E i \in 1..Len(records) : ~IsNull(records[i].power)
FastSamples ==
    {i \in 1..Len(records) :
        ~IsNull(records[i].speed) /\ records[i].speed > SPEED_CYCLING * SUperKph}

\* one step of parse_fit_records up to its call of _process_activity
SportHeuristic ==
    (call = "parse_fit_records" /\ pc = "parse_fit" /\ pc' = "clamp") =>
        IF meta.sport # "" THEN meta'.sport = meta.sport
        ELSE IF HasPower \/ Cardinality(FastSamples) > COUNT_CYCLING
             THEN meta'.sport = "cycling"
             ELSE meta'.sport = "running"

\* C16: when parse_fit_records is given no sport, the sport it hands to
\* _process_activity is cycling if some record has a power or more than 120
\* records have a speed above 20, and running otherwise; a sport that was
\* given is handed on unchanged.
C16_SportHeuristic == [][SportHeuristic]_vars

\* records without power and without a sport, more than 120 of them faster
\* than 20, were classified as cycling
C16_Witness ==
    /\ call = "parse_fit_records"
    /\ pc = "clamp"
    /\ ~HasPower
    /\ Cardinality(FastSamples) = COUNT_CYCLING + 1
    /\ meta.sport = "cycling"

\* exactly 120 fast records without power were classified as running
SportRunningAt120 ==
    /\ call = "parse_fit_records"
    /\ pc = "clamp"
    /\ ~HasPower
    /\ Cardinality(FastSamples) = COUNT_CYCLING
    /\ meta.sport = "running"

\* a sport that was given was kept although a record has a power
SportKept ==
    /\ call = "parse_fit_records"
    /\ pc = "clamp"
    /\ HasPower
    /\ meta.sport = "run"


-----------------------------------------------------------------------------
(* xml_path_val, lines 20-37.  A string is a sequence of characters; a node  *)
(* of the document is a text node or an element with its child nodes.        *)

\* the values that are not strings, told apart from every string
None == <<"<None>">>
NanValue == <<"<nan>">>
NoValue == <<"<nothing>">>

TextNode(data) == [nodeType |-> "TEXT_NODE", data |-> data]
ElementNode(tag, kids) == [nodeType |-> "ELEMENT_NODE", tagName |-> tag, childNodes |-> kids]

RECURSIVE Flatten(_)
\* ''.join(rc)
Flatten(parts) == IF parts = <<>> THEN <<>> ELSE Head(parts) \o Flatten(Tail(parts))

RECURSIVE Split(_)
\* tag_names.split('|'), line 21
Split(s) ==
    IF \A i \in 1..Len(s) : s[i] # "|" THEN <<s>>
    ELSE LET k == CHOOSE i \in 1..Len(s) : s[i] = "|" /\ \A j \in 1..(i - 1) : s[j] # "|"
         IN  <<SubSeq(s, 1, k - 1)>> \o Split(SubSeq(s, k + 1, Len(s)))

RECURSIVE Descendants(_)
\* the elements below a node, in document order
Descendants(kids) ==
    IF kids = <<>> THEN <<>>
    ELSE LET k == Head(kids)
         IN  (IF k.nodeType = "ELEMENT_NODE" THEN <<k>> \o Descendants(k.childNodes) ELSE <<>>)
             \o Descendants(Tail(kids))

\* element.getElementsByTagName(tag_name), line 23
ChildrenOnly(element, tag) ==
    SelectSeq(element.childNodes,
              LAMBDA n : n.nodeType = "ELEMENT_NODE" /\ n.tagName = tag)
GetElementsByTagName(element, tag) ==
    SelectSeq(Descendants(element.childNodes), LAMBDA n : n.tagName = tag)

\* lines 33-37: the data of the text nodes among the child nodes, joined
TextOf(element) ==
    LET texts == SelectSeq(element.childNodes, LAMBDA n : n.nodeType = "TEXT_NODE")
    IN  Flatten([i \in 1..Len(texts) |-> texts[i].data])

Returns(v) == [ret |-> v, exc |-> "none"]
Raises(e) == [ret |-> NoValue, exc |-> e]

RECURSIVE Lookup(_, _, _)
\* lines 22-37 on the list of tag names
Lookup(element, tags, default) ==
    IF tags = <<>> THEN Returns(TextOf(element))
    ELSE LET nodes == GetElementsByTagName(element, Head(tags))
         IN  IF Len(nodes) = 0
             THEN (IF default # None THEN Returns(default) ELSE Raises("KeyError"))
             ELSE IF Len(nodes) > 1 THEN Raises("RecursionError")
             ELSE Lookup(nodes[1], Tail(tags), default)

xml_path_val(element, tag_names, default) == Lookup(element, Split(tag_names), default)

\* the call of xml_path_val
XmlPathVal ==
    /\ call = "xml_path_val"
    /\ pc = "xml"
    /\ LET out == xml_path_val(xml.element, xml.tag_names, xml.default)
       IN  /\ xml' = [xml EXCEPT !.out = out]
           /\ pc' = IF out.exc = "none" THEN "done" ELSE "raised"
           /\ exc' = out.exc
    /\ UNCHANGED <<call, records, arg_df, df, dden, meta, pw, result, index, job>>

(* The documents *)

XmlKids == 2

A == <<"a">>
B == <<"b">>
Leaves ==
    {ElementNode(t, k) : t \in {A, B}, k \in {<<>>, <<TextNode(<<"x">>), TextNode(<<"y">>)>>}}
Inner ==
    {ElementNode(t, k) : t \in {A, B},
        k \in UNION {[1..n -> Leaves \cup {TextNode(<<"z">>)}] : n \in 0..XmlKids}}
Documents ==
    {ElementNode(<<"#document">>, <<m>>) : m \in Inner}
    \cup {ElementNode(<<"#document">>, <<m, l>>) : m \in Inner, l \in Leaves}

\* 'a', 'b', 'a|b', 'b|a', 'a|a', 'c'
TagNames == {A, B, A \o <<"|">> \o B, B \o <<"|">> \o A, A \o <<"|">> \o A, <<"c">>}
\* no default, '' and np.NaN
Defaults == {None, <<>>, NanValue}

InitXml ==
    /\ call = "xml_path_val"
    /\ pc = "xml"
    /\ xml \in {[element |-> e, tag_names |-> t, default |-> d, out |-> Returns(NoValue)]
                : e \in Documents, t \in TagNames, d \in Defaults}
    /\ records = <<>>
    /\ arg_df = <<>>
    /\ df = <<>>
    /\ dden = 1
    /\ meta = NoMeta
    /\ exc = "none"
    /\ pw = <<>>
    /\ result = NoResult
    /\ index = NoIndex
    /\ job = NoJob

SpecXml == InitXml /\ [][XmlPathVal]_vars


(* xml_path_val: properties *)

XmlDone == call = "xml_path_val" /\ pc \in {"done", "raised"}

\* the number of elements named tag below a node
RECURSIVE Occurrences(_, _)
Occurrences(node, tag) ==
    IF node.nodeType = "TEXT_NODE" THEN 0
    ELSE SumSeq([i \in 1..Len(node.childNodes) |->
                   (IF node.childNodes[i].nodeType = "ELEMENT_NODE"
                       /\ node.childNodes[i].tagName = tag THEN 1 ELSE 0)
                   + Occurrences(node.childNodes[i], tag)])

\* the one element named tag below a node that holds exactly one
RECURSIVE TheOne(_, _)
TheOne(node, tag) ==
    LET kids == node.childNodes
        i == CHOOSE j \in 1..Len(kids) :
                 kids[j].nodeType = "ELEMENT_NODE"
                 /\ (kids[j].tagName = tag \/ Occurrences(kids[j], tag) = 1)
    IN  IF kids[i].tagName = tag THEN kids[i] ELSE TheOne(kids[i], tag)

\* the first tag of a path of one or two names, its second tag if it has one
Tag1 == SubSeq(xml.tag_names, 1, 1)
TwoTags == Len(xml.tag_names) = 3
Tag2 == SubSeq(xml.tag_names, 3, 3)

\* every tag of the path occurs exactly once, each below the one before
EachExactlyOnce ==
    /\ Occurrences(xml.element, Tag1) = 1
    /\ TwoTags => Occurrences(TheOne(xml.element, Tag1), Tag2) = 1

\* how often the first tag of the path that does not occur exactly once
\* occurs; 1 when every tag occurs exactly once
FirstCount ==
    IF Occurrences(xml.element, Tag1) # 1 THEN Occurrences(xml.element, Tag1)
    ELSE IF TwoTags THEN Occurrences(TheOne(xml.element, Tag1), Tag2)
    ELSE 1

\* the data of the first n child nodes that are text, one after the other
RECURSIVE TextUpTo(_, _)
TextUpTo(kids, n) ==
    IF n = 0 THEN <<>>
    ELSE TextUpTo(kids, n - 1)
         \o (IF kids[n].nodeType = "TEXT_NODE" THEN kids[n].data ELSE <<>>)

\* the text of the element the path names
PathText ==
    LET e1 == TheOne(xml.element, Tag1)
        e == IF TwoTags THEN TheOne(e1, Tag2) ELSE e1
    IN  TextUpTo(e.childNodes, Len(e.childNodes))

\* C17: xml_path_val returns the default when a tag of the path is absent and
\* a default was given; it fails (KeyError) when a tag is absent and no
\* default was given, and fails (RecursionError) when a tag without a default
\* occurs more than once; it returns the text of the element the path names
\* when every tag of the path occurs exactly once, and only then returns
\* without having returned the default.
C17_XmlPathVal ==
    XmlDone =>
        /\ ((FirstCount = 0) /\ xml.default # None) => xml.out = [ret |-> xml.default, exc |-> "none"]
        /\ ((FirstCount = 0) /\ xml.default = None) => xml.out.exc = "KeyError"
        /\ ((FirstCount > 1) /\ xml.default = None) => xml.out.exc = "RecursionError"
        /\ EachExactlyOnce => xml.out = [ret |-> PathText, exc |-> "none"]
        /\ (xml.out.exc = "none" /\ ~EachExactlyOnce) => ((FirstCount = 0) /\ xml.out.ret = xml.default)

\* the text "xy" of the one b below the one a was returned for 'a|b' although
\* a default was given
C17_Witness ==
    /\ XmlDone
    /\ xml.tag_names = <<"a", "|", "b">>
    /\ xml.default = NanValue
    /\ EachExactlyOnce
    /\ xml.out = [ret |-> <<"x", "y">>, exc |-> "none"]

\* a required tag is missing
XmlMissingRequired == XmlDone /\ (FirstCount = 0) /\ xml.default = None /\ xml.out.exc = "KeyError"
\* a required tag is there twice, once below the other
XmlDuplicateRequired ==
    /\ XmlDone
    /\ FirstCount = 2
    /\ xml.default = None
    /\ Len(xml.element.childNodes) = 1
    /\ xml.out.exc = "RecursionError"
\* an optional tag is missing
XmlMissingOptional == XmlDone /\ (FirstCount = 0) /\ xml.default = <<>> /\ xml.out.ret = <<>>


-----------------------------------------------------------------------------
(* The activities index: activity_exists and save_activity, lines 108-124   *)
(* and 178-208.  A file name is its stem and its extension; a row of the    *)
(* index is the metadata of one activity.                                   *)

Name(stem, ext) == [stem |-> stem, ext |-> ext]

\* str.lower() on the strings the names are made of
Lower(s) ==
    CASE s = "A" -> "a"
      [] s = "FIT" -> "fit"
      [] OTHER -> s
LowerName(n) == Name(Lower(n.stem), Lower(n.ext))

\* what pd.read_csv reads back from what to_csv wrote: an empty field is NaN
NanName == Name("<nan>", "")
CsvName(n) == IF n = Name("", "") THEN NanName ELSE n
ReadCsv(rows) == [i \in 1..Len(rows) |-> [rows[i] EXCEPT !.src_file = CsvName(@)]]

IndexRow(src, t, title) == [src_file |-> src, dtime |-> t, title |-> title]

\* df.sort_values('dtime'), line 207: rows of one dtime keep their order
InsertByDtime(sorted, r) ==
    LET k == Cardinality({i \in 1..Len(sorted) : sorted[i].dtime <= r.dtime})
    IN  SubSeq(sorted, 1, k) \o <<r>> \o SubSeq(sorted, k + 1, Len(sorted))
RECURSIVE SortByDtime(_)
SortByDtime(rows) ==
    IF rows = <<>> THEN <<>>
    ELSE InsertByDtime(SortByDtime(SubSeq(rows, 1, Len(rows) - 1)), rows[Len(rows)])

\* lines 109-124 with src_file given
ActivityExistsNever(idx, src) == FALSE
activity_exists(idx, src) ==
    idx.exists
    /\ \E i \in 1..Len(idx.rows) :
          /\ ReadCsv(idx.rows)[i].src_file # NanName
          /\ LowerName(ReadCsv(idx.rows)[i].src_file) = LowerName(src)

\* lines 179-208: the activity file is written, then the index is updated
SaveActivityAppend(idx, m, overwrite) ==
    [exists |-> TRUE,
     rows |-> SortByDtime(ReadCsv(idx.rows) \o <<m>>),
     saved |-> idx.saved \cup {m.dtime}]
save_activity(idx, m, overwrite) ==
    LET rows == ReadCsv(idx.rows)
        existing == {i \in 1..Len(rows) : rows[i].src_file = m.src_file}
        dropped == SelectIdx(rows, [i \in 1..Len(rows) |-> i \notin existing], 1)
        new == IF ~idx.exists THEN <<m>>
               ELSE IF existing # {}
                    THEN (IF ~overwrite THEN rows ELSE dropped \o <<m>>)
                    ELSE rows \o <<m>>
    IN  [exists |-> TRUE, rows |-> SortByDtime(new), saved |-> idx.saved \cup {m.dtime}]

(* save_activity called again and again on one profile directory *)

MaxSaves == 3

\* start times: 10:00 on day 0, 00:00 and 10:00 on day 1 (seconds)
Day == 86400
T1 == 10 * 3600
T2 == Day
T3 == Day + 10 * 3600

SaveMetas ==
    {IndexRow(n, t, title) : n \in {Name("a", "fit"), Name("b", "tcx")},
                             t \in {T1, T3}, title \in {"first", "second"}}

SaveActivityCall ==
    /\ call = "save_activity"
    /\ pc = "idle"
    /\ job.calls < MaxSaves
    /\ \E m \in SaveMetas, overwrite \in BOOLEAN :
          /\ index' = save_activity(index, m, overwrite)
          /\ job' = [calls |-> job.calls + 1, meta |-> m, overwrite |-> overwrite]
    /\ UNCHANGED <<call, pc, records, arg_df, df, dden, meta, exc, pw, result, xml>>

\* everything but the index and the job
IdleRest ==
    /\ records = <<>>
    /\ arg_df = <<>>
    /\ df = <<>>
    /\ dden = 1
    /\ meta = NoMeta
    /\ exc = "none"
    /\ pw = <<>>
    /\ result = NoResult
    /\ xml = NoXml

InitSave ==
    /\ call = "save_activity"
    /\ pc = "idle"
    /\ index = NoIndex
    /\ job = [calls |-> 0, meta |-> IndexRow(Name("a", "fit"), T1, "first"), overwrite |-> FALSE]
    /\ IdleRest


-----------------------------------------------------------------------------
(* import_files, lines 126-170: one action per turn of the loop over the    *)
(* files.  job.round is 1 in the first call and 2 in the call that repeats  *)
(* it without overwrite; job.before is the index as the call found it.      *)

\* no from_dtime, no to_dtime, no max
NoTime == 0
NoMax == 0

\* lines 133-136: a to_dtime at 00:00 means the end of that day
EndOfDay(t) ==
    IF t = NoTime THEN NoTime
    ELSE IF (t % Day) \div 60 = 0 THEN t - (t % Day) + 23 * 3600 + 59 * 60 + 59
    ELSE t

File(name, t, title, ok) == [name |-> name, dtime |-> t, title |-> title, ok |-> ok]

\* lines 143-145
Importable(f) == Lower(f.name.ext) \in {"tcx", "gpx", "fit"}

\* the metadata parse_file returns for a file it can read
ParsedMeta(f) == IndexRow(f.name, f.dtime, f.title)

\* lines 156-159
BeforeFrom(t, from) == from # NoTime /\ t < from
AfterTo(t, to) == to # NoTime /\ t > EndOfDay(to)

ImportTurn == call = "import_files" /\ pc = "loop" /\ job.i <= Len(job.dir)
ThisFile == job.dir[job.i]

ImportStep(j, idx) ==
    /\ job' = j
    /\ index' = idx
    /\ UNCHANGED <<call, pc, records, arg_df, df, dden, meta, exc, pw, result, xml>>

\* lines 145-146
ImportSkipExtension ==
    /\ ImportTurn
    /\ ~Importable(ThisFile)
    /\ ImportStep([job EXCEPT !.i = @ + 1], index)

\* lines 148-152
ImportSkipExisting ==
    /\ ImportTurn
    /\ Importable(ThisFile)
    /\ activity_exists(index, ThisFile.name) /\ ~job.overwrite
    /\ ImportStep([job EXCEPT !.i = @ + 1], index)

\* line 154: parse_file raises
ImportParseFails ==
    /\ ImportTurn
    /\ Importable(ThisFile)
    /\ ~(activity_exists(index, ThisFile.name) /\ ~job.overwrite)
    /\ ~ThisFile.ok
    /\ pc' = "raised"
    /\ exc' = "ParseError"
    /\ job' = [job EXCEPT !.parsed = @ \cup {ThisFile.name}]
    /\ UNCHANGED <<call, records, arg_df, df, dden, meta, pw, result, xml, index>>

\* lines 156-159
ImportFiltered ==
    /\ ImportTurn
    /\ Importable(ThisFile)
    /\ ~(activity_exists(index, ThisFile.name) /\ ~job.overwrite)
    /\ ThisFile.ok
    /\ BeforeFrom(ThisFile.dtime, job.from_dtime) \/ AfterTo(ThisFile.dtime, job.to_dtime)
    /\ ImportStep([job EXCEPT !.i = @ + 1, !.parsed = @ \cup {ThisFile.name}], index)

\* lines 164-168
ImportSave ==
    /\ ImportTurn
    /\ Importable(ThisFile)
    /\ ~(activity_exists(index, ThisFile.name) /\ ~job.overwrite)
    /\ ThisFile.ok
    /\ ~BeforeFrom(ThisFile.dtime, job.from_dtime)
    /\ ~AfterTo(ThisFile.dtime, job.to_dtime)
    /\ LET n == job.updates + 1
           stop == job.max # NoMax /\ n >= job.max
       IN  ImportStep([job EXCEPT !.i = IF stop THEN Len(job.dir) + 1 ELSE @ + 1,
                                  !.updates = n,
                                  !.parsed = @ \cup {ThisFile.name}],
                      save_activity(index, ParsedMeta(ThisFile), job.overwrite))

\* line 170
ImportReturn ==
    /\ call = "import_files"
    /\ pc = "loop"
    /\ job.i > Len(job.dir)
    /\ pc' = "returned"
    /\ UNCHANGED <<call, records, arg_df, df, dden, meta, exc, pw, result, xml, index, job>>

\* the same call once more, without overwrite, on the same directory
ImportAgain ==
    /\ call = "import_files"
    /\ pc = "returned"
    /\ job.round = 1
    /\ pc' = "loop"
    /\ job' = [job EXCEPT !.round = 2, !.overwrite = FALSE, !.i = 1, !.updates = 0,
                          !.parsed = {}, !.before = index]
    /\ UNCHANGED <<call, records, arg_df, df, dden, meta, exc, pw, result, xml, index>>

ImportFiles ==
    \/ ImportSkipExtension
    \/ ImportSkipExisting
    \/ ImportParseFails
    \/ ImportFiltered
    \/ ImportSave
    \/ ImportReturn
    \/ ImportAgain

(* The directories *)

MaxFiles == 3

DirFiles ==
    {File(Name("a", "fit"), T1, "ride", TRUE),
     File(Name("A", "FIT"), T3, "run", TRUE),
     File(Name("b", "tcx"), T2, "walk", TRUE),
     File(Name("c", "txt"), T1, "notes", TRUE),
     File(Name("bad", "gpx"), T1, "broken", FALSE)}

\* glob.glob(dir/*): the files of the directory, in some order
Dirs ==
    UNION {{d \in [1..n -> DirFiles] : \A i, j \in 1..n : i # j => d[i] # d[j]}
           : n \in 0..MaxFiles}

\* the index of a profile that has imported a.fit before
IndexWithA ==
    [exists |-> TRUE, rows |-> <<IndexRow(Name("a", "fit"), T1, "old ride")>>, saved |-> {T1}]

InitImport ==
    /\ call = "import_files"
    /\ pc = "loop"
    /\ index \in {NoIndex, IndexWithA}
    /\ job \in {[dir |-> d, overwrite |-> o, from_dtime |-> f, to_dtime |-> t, max |-> m,
                 i |-> 1, updates |-> 0, parsed |-> {}, round |-> 1, before |-> x]
                : d \in Dirs, o \in BOOLEAN, f \in {NoTime, T2}, t \in {NoTime, T1, T2},
                  m \in {NoMax, 1}, x \in {NoIndex, IndexWithA}}
    /\ job.before = index
    /\ IdleRest


-----------------------------------------------------------------------------
(* _zwift_update_activities, lines 320-362: one action per turn of the      *)
(* while loop, that is per request of the remote list.                      *)

Activity(id, t, name) == [id |-> id, dtime |-> t, name |-> name]

\* _parse_meta_from_zwift_activity, lines 303-309, and the metadata that
\* parse_zwift_activity hands to save_activity
ZwiftMeta(a) == IndexRow(Name(a.id, "zwift"), a.dtime, a.name)

\* activity_client.list(start=start, limit=batch), line 340
ListActivities(remote, start, limit) ==
    IF start >= Len(remote) THEN <<>>
    ELSE SubSeq(remote, start + 1, IF start + limit > Len(remote) THEN Len(remote) ELSE start + limit)

\* line 355 and line 358
LastBatch(j) == j.start + j.batch >= j.max

RECURSIVE SaveBatch(_, _, _)
\* lines 341-356: the for loop over the activities of one batch; st is the
\* index, the count of updates and the ids saved so far
SaveBatch(acts, j, st) ==
    IF acts = <<>> THEN st
    ELSE LET m == ZwiftMeta(Head(acts))
         IN  IF activity_exists(st.index, m.src_file) /\ ~j.overwrite
             THEN SaveBatch(Tail(acts), j, st)
             ELSE IF BeforeFrom(m.dtime, j.from_dtime) \/ AfterTo(m.dtime, j.to_dtime)
             THEN SaveBatch(Tail(acts), j, st)
             ELSE LET st2 == [index |-> save_activity(st.index, m, j.overwrite),
                              n |-> st.n + 1,
                              saved |-> Append(st.saved, Head(acts).id)]
                  IN  IF LastBatch(j) THEN st2 ELSE SaveBatch(Tail(acts), j, st2)

\* lines 327-328
ZwiftRejects ==
    /\ call = "_zwift_update_activities"
    /\ pc = "entry"
    /\ job.overwrite /\ job.max = NoMax
    /\ pc' = "raised"
    /\ exc' = "ValueError"
    /\ UNCHANGED <<call, records, arg_df, df, dden, meta, pw, result, xml, index, job>>

ZwiftTurn(next) ==
    /\ pc \in {"entry", "while"}
    /\ pc = "entry" => ~(job.overwrite /\ job.max = NoMax)
    /\ LET acts == ListActivities(job.remote, job.start, job.batch)
           st == SaveBatch(acts, job,
                           [index |-> index, n |-> job.n_updates, saved |-> job.saved])
       IN  /\ index' = st.index
           /\ job' = [job EXCEPT !.requested = Append(@, job.start),
                                 !.n_updates = st.n,
                                 !.saved = st.saved,
                                 !.start = IF LastBatch(job) THEN @ ELSE @ + job.batch]
    /\ pc' = next
    /\ UNCHANGED <<call, records, arg_df, df, dden, meta, exc, pw, result, xml>>

\* lines 339-360: a batch that is not the last one
ZwiftBatch ==
    /\ call = "_zwift_update_activities"
    /\ ~LastBatch(job)
    /\ ZwiftTurn("while")

\* lines 339-359 and 362: the last batch, and the return
ZwiftLastBatch ==
    /\ call = "_zwift_update_activities"
    /\ LastBatch(job)
    /\ ZwiftTurn("done")

ZwiftUpdateActivities ==
    \/ ZwiftRejects
    \/ ZwiftBatch
    \/ ZwiftLastBatch

(* The remote lists *)

MaxRemote == 3

RemoteActivities ==
    {Activity("1", T1, "ride"), Activity("2", T2, "run"), Activity("3", T3, "ride")}

Remotes ==
    UNION {{r \in [1..n -> RemoteActivities] : \A i, j \in 1..n : i # j => r[i] # r[j]}
           : n \in 0..MaxRemote}

\* the index of a profile that has stored activity 1 before
IndexWith1 ==
    [exists |-> TRUE, rows |-> <<IndexRow(Name("1", "zwift"), T1, "old ride")>>, saved |-> {T1}]

InitZwift ==
    /\ call = "_zwift_update_activities"
    /\ pc = "entry"
    /\ index \in {NoIndex, IndexWith1}
    /\ job \in {[remote |-> r, start |-> s, max |-> m, batch |-> b, overwrite |-> o,
                 from_dtime |-> f, to_dtime |-> t, n_updates |-> 0, requested |-> <<>>,
                 saved |-> <<>>, before |-> x]
                : r \in Remotes, s \in {0, 1}, m \in 0..MaxRemote, b \in {1, 2},
                  o \in BOOLEAN, f \in {NoTime, T2}, t \in {NoTime, T1},
                  x \in {NoIndex, IndexWith1}}
    /\ job.before = index
    /\ IdleRest

(* The three of them on a profile directory *)

InitStore == InitSave \/ InitImport \/ InitZwift

NextStore ==
    \/ SaveActivityCall
    \/ ImportFiles
    \/ ZwiftUpdateActivities

SpecStore == InitStore /\ [][NextStore]_vars


-----------------------------------------------------------------------------
(* The activities index: properties *)

RowSet(idx) == {idx.rows[i] : i \in 1..Len(idx.rows)}
Indexed(idx, src) == \E r \in RowSet(idx) : r.src_file = src
OneRowPerFile(idx) ==
    \A i, j \in 1..Len(idx.rows) : idx.rows[i].src_file = idx.rows[j].src_file => i = j

\* one call of save_activity in a run that began without an index file
SaveKeepsOneRowPerFile ==
    (call = "save_activity" /\ job'.calls = job.calls + 1) =>
        LET m == job'.meta
            others == {r \in RowSet(index) : r.src_file # m.src_file}
        IN  /\ OneRowPerFile(index')
            /\ (Indexed(index, m.src_file) /\ ~job'.overwrite) => index'.rows = index.rows
            /\ (Indexed(index, m.src_file) /\ job'.overwrite) =>
                  (RowSet(index') = others \cup {m} /\ Len(index'.rows) = Len(index.rows))
            /\ ~Indexed(index, m.src_file) =>
                  (RowSet(index') = RowSet(index) \cup {m} /\ Len(index'.rows) = Len(index.rows) + 1)

-----------------------------------------------------------------------------
(* import_files: properties *)

\* C19: in a call of import_files that repeats, without overwrite and with
\* max unset, a call that has returned, on the same directory: nothing is
\* saved, the count to return stays 0, the index stays what the call found,
\* the call does not raise, and no file whose name is in the index is parsed.
C19_ImportIdempotent ==
    (call = "import_files" /\ job.round = 2 /\ job.max = NoMax) =>
        /\ index = job.before
        /\ job.updates = 0
        /\ pc # "raised"
        /\ \A n \in job.parsed : ~activity_exists(index, n)

\* the second call returned 0 where the first one had imported a file and
\* skipped one for its date, which the second call parsed again
C19_Witness ==
    /\ call = "import_files"
    /\ pc = "returned"
    /\ job.round = 2
    /\ job.max = NoMax
    /\ job.updates = 0
    /\ \E r \in RowSet(index) : r.title \in {"ride", "run", "walk"}
    /\ Cardinality(job.parsed) = 1

\* with max set the second call imports what the first one left
ImportMoreWithMax ==
    /\ call = "import_files"
    /\ job.round = 2
    /\ job.max # NoMax
    /\ job.updates > 0

-----------------------------------------------------------------------------
(* _zwift_update_activities: properties *)

ZwiftReturned == call = "_zwift_update_activities" /\ pc = "done"

\* the offsets start, start + batch, ... up to and including the first one
\* with offset + batch >= max
RECURSIVE Offsets(_, _, _)
Offsets(offset, batch, max) ==
    IF offset + batch >= max THEN <<offset>>
    ELSE <<offset>> \o Offsets(offset + batch, batch, max)

WithinBounds(a) ==
    /\ job.from_dtime = NoTime \/ a.dtime >= job.from_dtime
    /\ job.to_dtime = NoTime \/ a.dtime <= EndOfDay(job.to_dtime)

\* the activities the list returned at an offset
Listed(offset) ==
    {job.remote[i] : i \in {k \in 1..Len(job.remote) : offset < k /\ k <= offset + job.batch}}

Wanted(a) ==
    /\ WithinBounds(a)
    /\ job.overwrite \/ ~activity_exists(job.before, Name(a.id, "zwift"))

SavedIds == {job.saved[i] : i \in 1..Len(job.saved)}

RequestedAll ==
    job.requested = Offsets(job.requested[1], job.batch, job.max)

\* C20: for max > 0 and batch > 0, when _zwift_update_activities returns it
\* has requested the offsets start, start + batch, ... up to and including the
\* first with offset + batch >= max, it has saved every activity of every
\* batch it requested that was not indexed (any activity with overwrite) and
\* lies within the date bounds, and only those, and the count it returns is
\* the number of activities it saved.
C20_SavesEveryListedActivity ==
    (ZwiftReturned /\ job.max > 0) =>
        /\ RequestedAll
        /\ \A i \in 1..Len(job.requested) :
              \A a \in Listed(job.requested[i]) : Wanted(a) <=> a.id \in SavedIds
        /\ job.n_updates = Len(job.saved)
        /\ Len(job.saved) = Cardinality(SavedIds)

\* the same, but of the last batch only the first wanted activity is saved:
\* the break of line 356 leaves the for loop after the first save
SavesLastBatchFirstOnly ==
    (ZwiftReturned /\ job.max > 0) =>
        /\ RequestedAll
        /\ \A i \in 1..Len(job.requested) :
              \A k \in 1..Len(job.remote) :
                 (job.remote[k] \in Listed(job.requested[i])) =>
                    LET a == job.remote[k]
                        earlier == \E h \in 1..(k - 1) :
                                      job.remote[h] \in Listed(job.requested[i])
                                      /\ Wanted(job.remote[h])
                    IN  (a.id \in SavedIds) <=>
                           (Wanted(a) /\ (i = Len(job.requested) => ~earlier))
        /\ job.n_updates = Len(job.saved)
        /\ Len(job.saved) = Cardinality(SavedIds)

\* two batches were requested and an activity of each was saved
ZwiftTwoBatches ==
    /\ ZwiftReturned
    /\ Len(job.requested) = 2
    /\ Len(job.saved) = 2


-----------------------------------------------------------------------------
(* zwift_list_activities, lines 227-243: one action per turn of the while   *)
(* loop, that is per request of the remote list.                            *)

\* job.first keeps the argument start.

\* lines 236-238: the extended metadata of an activity without its src_file
ListMeta(a) == [id |-> a.id, dtime |-> a.dtime, title |-> a.name]

\* the offsets from MaxStart on stand for every larger offset: all of them
\* lie past the end of every remote list of at most MaxRemote activities;
\* job.odd tells whether the number of requests made so far is odd, so that
\* a request at such an offset is still a step
MaxStart == 8

\* lines 234-240: the loop test holds; one request and its for loop
ListBatch ==
    /\ call = "zwift_list_activities"
    /\ pc = "while"
    /\ job.count < job.max
    /\ LET acts == ListActivities(job.remote, job.start, job.batch)
       IN  job' = [job EXCEPT
                     !.metas = @ \o [i \in 1..Len(acts) |-> ListMeta(acts[i])],
                     !.count = @ + Len(acts),
                     !.start = IF @ + job.batch > MaxStart THEN MaxStart ELSE @ + job.batch,
                     !.odd = ~@]
    /\ UNCHANGED <<call, pc, records, arg_df, df, dden, meta, exc, pw, result, xml, index>>

\* lines 234 and 242: the loop test fails; return pd.DataFrame(metas)
ListReturn ==
    /\ call = "zwift_list_activities"
    /\ pc = "while"
    /\ ~(job.count < job.max)
    /\ pc' = "returned"
    /\ UNCHANGED <<call, records, arg_df, df, dden, meta, exc, pw, result, xml, index, job>>

ZwiftListActivities ==
    \/ ListBatch
    \/ ListReturn

InitList ==
    /\ call = "zwift_list_activities"
    /\ pc = "while"
    /\ index = NoIndex
    /\ job \in {[remote |-> r, start |-> s, max |-> m, batch |-> b, first |-> s,
                 count |-> 0, metas |-> <<>>, odd |-> FALSE]
                : r \in Remotes, s \in {0, 1}, m \in 0..MaxRemote, b \in {1, 2}}
    /\ IdleRest

\* the loop runs on as long as its test holds
SpecList == InitList /\ [][ZwiftListActivities]_vars /\ WF_vars(ZwiftListActivities)


(* zwift_list_activities: properties *)

ListCalled == call = "zwift_list_activities"
ListReturned == ListCalled /\ pc = "returned"

\* the loop test holds and the next request starts past the end of the list
Starved ==
    /\ ListCalled
    /\ pc = "while"
    /\ job.count < job.max
    /\ job.start >= Len(job.remote)

\* C21: zwift_list_activities eventually returns, whatever the remote list
\* holds, also when it holds fewer than max activities from start onward.
C21_ListEventuallyReturns == <>ListReturned

\* once a request starts past the end of the list with the loop test true,
\* every later request does, and the loop test stays true
StarvedStays == Starved => Starved'
StarvedForever == [][StarvedStays]_vars

\* the call returns or comes to request past the end of the list for ever
ReturnsOrStarves == <>(ListReturned \/ Starved)

\* the offsets folded into MaxStart are past the end of the list
FoldedPastEnd == (ListCalled /\ job.start >= MaxStart) => job.start >= Len(job.remote)

\* what is returned are the activities from start on, in the order listed,
\* up to the end of the batch in which the count reached max
ListReturnedAll ==
    ListReturned =>
        /\ job.count = Len(job.metas)
        /\ job.count >= job.max
        /\ \A i \in 1..Len(job.metas) : job.metas[i].id = job.remote[job.first + i].id

\* two activities are asked of a list of one: the second request is empty
ListStarvedOfOne ==
    /\ Starved
    /\ Len(job.remote) = 1
    /\ job.max = 2
    /\ job.count = 1
    /\ job.start > 1

=============================================================================
